---------------------------- MODULE Spec2Model ----------------------------
(***************************************************************************)
(* Model of the search-and-scrape aggregation service (express app with    *)
(* the endpoints "/" and "/query").                                        *)
(*                                                                         *)
(* The specifications share this module, one per layer of the code:        *)
(*   SpecFetch  fetchContentFromUrl raced against the per-URL timer        *)
(*   SpecQuery  fetchDataFromGoogle: search, filter, fan-out, fold         *)
(*   Spec       app.post("/query"): validation, queries, global timer      *)
(*   SpecSequential  the fold of the sequential variant                    *)
(*   SpecText   extractTextFromHTML: whitespace and stopword cleaning      *)
(*   SpecLinks  extractTextFromHTML: the same-origin links                 *)
(*   SpecRoot   app.post("/"): the single-URL endpoint                     *)
(* Times are in milliseconds, string lengths in characters.                *)
(***************************************************************************)
EXTENDS Integers, Sequences, FiniteSets, TLC

VARIABLES
    \* ---- fetchContentFromUrl and the per-URL race (SpecFetch)
    fpc,        \* "start" | "get" | "backoff" | "returned"
    attempt,    \* the local `attempt`
    gets,       \* HTTP GETs issued so far
    hist,       \* the responses / errors the GETs ended with, in order
    delays,     \* the backoff delays slept, in order
    fret,       \* value returned by fetchContentFromUrl (length of the text)
    now,        \* time (since the callback started) of the fetch loop's last step
    due,        \* completion time of the pending GET or backoff sleep
    race,       \* Promise.race: "pending" | "content" | "timeout"
    mapRes,     \* value of the map callback: "pending" | "null" | "record"
    logs,       \* records fetchContentFromUrl has written to the logger
    extracts,   \* calls of extractTextFromHTML
    \* ---- fetchDataFromGoogle for one query (SpecQuery)
    spc,        \* "search" | "fetch" | "fold" | "done"
    maxChars,   \* the parameter maxChars
    items,      \* response.data.items
    settled,    \* the map callbacks' values, in the order they settled
    results,    \* the array Promise.all resolved with
    idx,        \* position of the fold in results.filter(Boolean)
    stopped,    \* the some() callback has returned true
    context,    \* the local `context`
    successfulUrls, \* the local counter successfulUrls
    failedUrls,     \* the local counter failedUrls
    abandoned,      \* fetches still running after their timer won the race
    lateReturns,    \* abandoned fetches that have returned since
    failureReasons, \* the local Map failureReasons: link -> reason
    \* ---- app.post("/query") (Spec)
    hpc,        \* "recv" | "racing" | "responded"
    req,        \* req.body
    qst,        \* per query: "search" | "fetch" | "done"
    qhits,      \* per query: number of candidates being fetched
    qctx,       \* per query: the queryContext its promise resolved with
    qfail,      \* per query: the search call failed
    qbudget,    \* per query: the maxChars it was called with
    hnow,       \* time since the handler armed the global timer
    timerFired, \* the global timer's callback has run
    timedOut,   \* "Operation timed out, returning partial results" was logged
    respStatus, \* HTTP status of the response (0: none yet)
    respBody,   \* contextData of the response
    respAt,     \* time of the response
    respDone,   \* the queries that had completed when the response was sent
    nresp,      \* number of responses sent
    ioCalls,    \* search calls and page fetches started for the request
    outOfOrder, \* a query completed before one that precedes it in the input
    \* ---- extractTextFromHTML (SpecText, SpecLinks)
    epc,        \* "idle" | "markdown" | "spaced" | "text" | "html" | "hrefs" | "links"
    markdown,   \* the local `markdown`
    cleaned,    \* the local `cleanedMarkdown`
    pageUrl,    \* the origin of the parameter `url`
    anchors,    \* the href attributes of the anchors of `html`
    hrefs,      \* the local `hrefs`
    urls,       \* the local `urls`
    \* ---- app.post("/") (SpecRoot), one entry per request
    rpc,        \* "recv" | "get" | "responded"
    rurl,       \* req.body.url
    rgot,       \* what the GET ended with
    rthrew,     \* extractTextFromHTML threw
    rstatus,    \* HTTP status of the response (0: none yet)
    rbody,      \* "none" | "error" | "result"
    rsent,      \* number of responses sent
    rgets       \* number of GETs started

fvars == <<fpc, attempt, gets, hist, delays, fret, now, due, race, mapRes,
           logs, extracts>>
mvars == <<successfulUrls, failedUrls, abandoned, lateReturns, failureReasons>>
qvars == <<spc, maxChars, items, settled, results, idx, stopped, context, mvars>>
hvars == <<hpc, req, qst, qhits, qctx, qfail, qbudget, hnow, timerFired, timedOut,
           respStatus, respBody, respAt, respDone, nresp, ioCalls, outOfOrder>>
evars == <<epc, markdown, cleaned, pageUrl, anchors, hrefs, urls>>
rvars == <<rpc, rurl, rgot, rthrew, rstatus, rbody, rsent, rgets>>
vars == <<fvars, qvars, hvars, evars, rvars>>

---------------------------------------------------------------------------
(* Program constants *)

maxRetries == 2
UrlTimeoutMs == 20000
AttemptTimeoutMs == 15000
BackoffBaseMs == 1000
MinContentLen == 100

retryableStatusCodes == {429, 503, 502, 504}

---------------------------------------------------------------------------
(* The world a fetch can meet *)

\* Durations of a GET that ends before got's own request timeout.
FetchDurations == {0, 8000}

\* Lengths of the text extractTextFromHTML returns.
ContentLens == {0, 100, 101, 150}

HttpResp(s, ct, mk, n) ==
    [kind |-> "http", status |-> s, name |-> "", code |-> "",
     ctype |-> ct, markup |-> mk, len |-> n]

ErrResp(nm, cd) ==
    [kind |-> "error", status |-> 0, name |-> nm, code |-> cd,
     ctype |-> "", markup |-> FALSE, len |-> 0]

HttpResponses ==
    { HttpResp(s, "text/html", TRUE, 150) : s \in {404, 429, 500, 502, 503, 504} }
    \cup { HttpResp(200, "text/html; charset=utf-8", TRUE, n) : n \in ContentLens }
    \cup { HttpResp(200, "application/pdf", TRUE, 150),
           HttpResp(503, "application/json", FALSE, 150),
           HttpResp(200, "text/plain", FALSE, 150),
           HttpResp(200, "", TRUE, 150) }

\* got's TimeoutError: thrown when the request timeout of the attempt elapses.
GotTimeout == ErrResp("TimeoutError", "ETIMEDOUT")

TransportErrors ==
    { ErrResp("RequestError", c) :
        c \in {"ECONNRESET", "ECONNREFUSED", "ETIMEDOUT", "ENOTFOUND"} }

\* What a GET that took d ms can end with.
Outcomes(d) ==
    IF d >= AttemptTimeoutMs THEN {GotTimeout}
    ELSE HttpResponses \cup TransportErrors

---------------------------------------------------------------------------
(* fetchContentFromUrl *)

\* got's response.ok
ResponseOk(s) == (s >= 200 /\ s <= 299) \/ s = 304

RetryStatusNoBudget(s, a) == s \in retryableStatusCodes
RetryStatus(s, a) == s \in retryableStatusCodes /\ a < maxRetries

RetryAnyError(e, a) == a < maxRetries
RetryErrorNoTimeouts(e, a) ==
    a < maxRetries /\ e.code \in {"ECONNRESET", "ECONNREFUSED"}
RetryError(e, a) ==
    /\ a < maxRetries
    /\ \/ e.code = "ECONNRESET"
       \/ e.code = "ETIMEDOUT"
       \/ e.code = "ECONNREFUSED"
       \/ e.name = "TimeoutError"

BackoffDelayBeforeIncrement(a) == (2 ^ (a - 1)) * BackoffBaseMs
BackoffDelay(a) == (2 ^ a) * BackoffBaseMs

\* contentType.includes("html") || contentType.includes("text")
ContentTypeAny(ct) == TRUE
ContentTypeOk(ct) ==
    ct \in {"text/html", "text/html; charset=utf-8", "text/plain"}

\* The value one loop iteration returns for a response that ends the loop.
ReturnValueNoMarkupGate(r) ==
    IF r.kind = "error" THEN 0
    ELSE IF ~ResponseOk(r.status) THEN 0
    ELSE IF ~ContentTypeOk(r.ctype) THEN 0
    ELSE r.len
ReturnValueRethrows(r) ==
    IF r.kind = "error" THEN -1
    ELSE IF ~ResponseOk(r.status) THEN 0
    ELSE IF ~ContentTypeOk(r.ctype) THEN 0
    ELSE IF ~r.markup THEN 0
    ELSE r.len
ReturnValue(r) ==
    IF r.kind = "error" THEN 0
    ELSE IF ~ResponseOk(r.status) THEN 0
    ELSE IF ~ContentTypeOk(r.ctype) THEN 0
    ELSE IF ~r.markup THEN 0
    ELSE r.len

WillRetry(r, a) ==
    IF r.kind = "error" THEN RetryError(r, a)
    ELSE ~ResponseOk(r.status) /\ RetryStatus(r.status, a)

\* The logger calls of one loop iteration: "URL fetch attempt" for every
\* response, one more record when the response ends the loop; one
\* "Error during content fetch" for a rejected GET.
LogRecordsAttemptOnly(r, a) == 1
LogRecords(r, a) ==
    IF r.kind = "error" THEN 1
    ELSE IF WillRetry(r, a) THEN 1
    ELSE 2

\* extractTextFromHTML(body, url) is reached past the three gates only.
ExtractAlways(r) == 1
ExtractCalls(r) ==
    IF /\ r.kind = "http"
       /\ ResponseOk(r.status)
       /\ ContentTypeOk(r.ctype)
       /\ r.markup
    THEN 1 ELSE 0

\* content && content.length > 100
MapValueAtLeast(n) == IF n >= MinContentLen THEN "record" ELSE "null"
MapValue(n) == IF n > MinContentLen THEN "record" ELSE "null"

IssueGet ==
    /\ gets' = gets + 1
    /\ \E d \in FetchDurations \cup {AttemptTimeoutMs} : due' = now' + d
    /\ fpc' = "get"

\* The map callback arms the timer and calls fetchContentFromUrl, which
\* enters the loop and issues the first GET.
StartUrl ==
    /\ fpc = "start"
    /\ now' = now
    /\ IssueGet
    /\ UNCHANGED <<attempt, hist, delays, fret, race, mapRes, logs, extracts>>
    /\ UNCHANGED <<qvars, hvars, evars, rvars>>

\* The pending operation may complete only if the per-URL timer is not due
\* strictly before it.
MayCompleteAfterTimer == TRUE
MayComplete == race # "pending" \/ due <= UrlTimeoutMs

GetReturns ==
    /\ fpc = "get"
    /\ MayComplete
    /\ now' = due
    /\ \E r \in Outcomes(due - now) :
        /\ hist' = Append(hist, r)
        /\ logs' = logs + LogRecords(r, attempt)
        /\ IF WillRetry(r, attempt)
           THEN /\ attempt' = attempt + 1
                /\ delays' = Append(delays, BackoffDelay(attempt + 1))
                /\ due' = due + BackoffDelay(attempt + 1)
                /\ fpc' = "backoff"
                /\ UNCHANGED <<gets, fret, race, mapRes, extracts>>
           ELSE /\ fpc' = "returned"
                /\ fret' = ReturnValue(r)
                /\ extracts' = extracts + ExtractCalls(r)
                /\ IF race = "pending"
                   THEN race' = "content" /\ mapRes' = MapValue(ReturnValue(r))
                   ELSE UNCHANGED <<race, mapRes>>
                /\ UNCHANGED <<attempt, gets, delays, due>>
    /\ UNCHANGED <<qvars, hvars, evars, rvars>>

BackoffDone ==
    /\ fpc = "backoff"
    /\ MayComplete
    /\ now' = due
    /\ IF attempt <= maxRetries
       THEN IssueGet /\ UNCHANGED <<fret, race, mapRes>>
       ELSE /\ fpc' = "returned"
            /\ fret' = 0
            /\ IF race = "pending"
               THEN race' = "content" /\ mapRes' = MapValue(0)
               ELSE UNCHANGED <<race, mapRes>>
            /\ UNCHANGED <<gets, due>>
    /\ UNCHANGED <<attempt, hist, delays, logs, extracts>>
    /\ UNCHANGED <<qvars, hvars, evars, rvars>>

\* setTimeout(() => reject(new Error("URL fetch timeout")), 20000): the race
\* rejects, the callback's catch returns null; the fetch itself goes on.
UrlTimerFires ==
    /\ race = "pending"
    /\ fpc \in {"get", "backoff"}
    /\ due >= UrlTimeoutMs
    /\ race' = "timeout"
    /\ mapRes' = "null"
    /\ UNCHANGED <<fpc, attempt, gets, hist, delays, fret, now, due,
                   logs, extracts>>
    /\ UNCHANGED <<qvars, hvars, evars, rvars>>

---------------------------------------------------------------------------
(* Strings.  A string is a sequence of pieces; a piece stands for the first *)
(* n characters of a text of `full` characters: the header of query q, the *)
(* record of item i of query q, or the separator after query q.            *)

Piece(kind, q, i, len) == [k |-> kind, q |-> q, i |-> i, full |-> len, n |-> len]

RECURSIVE StrLen(_)
StrLen(s) == IF s = <<>> THEN 0 ELSE Head(s).n + StrLen(Tail(s))

\* The first m characters of s (0 <= m).
RECURSIVE Take(_, _)
Take(s, m) ==
    IF s = <<>> \/ m <= 0 THEN <<>>
    ELSE IF Head(s).n <= m THEN <<Head(s)>> \o Take(Tail(s), m - Head(s).n)
    ELSE <<[Head(s) EXCEPT !.n = m]>>

---------------------------------------------------------------------------
(* fetchDataFromGoogle *)

RecordOverhead == 28
TitleLen == 5
LinkLen == 12
MaxItems == 3

\* `Title: ${title}\nSOURCE: ${link}\nContent: ${content}\n\n`
\* The record of a result r: r.tl is the length of `${result.title}`, which
\* is "undefined" when the item has no title.
RecordOf(q, r) == <<Piece("rec", q, r.item, RecordOverhead + r.tl + LinkLen + r.len)>>

\* A link, by what the two regular expressions look at.
Link(ext, path) == [form |-> "url", ext |-> ext, path |-> path]
Links == { Link("", "article"), Link("pdf", "article"), Link("", "login") }

\* A link that both patterns match.
DownloadLink == Link("pdf", "download")

\* A link that is not a URL, and the link of an item that has none (the
\* regular expressions and the template see the text "undefined").
MalformedLink == [form |-> "malformed", ext |-> "", path |-> ""]
UndefinedLink == [form |-> "undefined", ext |-> "", path |-> "undefined"]

\* An item of the search response: its link and whether it has a title.
Item(link, titled) == [link |-> link, title |-> titled]
Items ==
    { Item(l, TRUE) : l \in Links \cup {DownloadLink, MalformedLink, UndefinedLink} }
    \cup { Item(Link("", "article"), FALSE) }

UndefinedLen == 9
TitleLenOf(it) == IF it.title THEN TitleLen ELSE UndefinedLen

\* excludedPatterns.test(link)
ExcludedExtension(l) ==
    l.ext \in {"pdf", "doc", "docx", "xls", "xlsx", "ppt", "pptx", "txt", "csv",
               "zip", "rar", "jpg", "jpeg", "png", "gif", "bmp", "webp", "svg"}

\* suspectedNonTextPatterns.test(link)
SuspectedNonText(l) ==
    l.path \in {"viewcontent", "download", "serveFile", ".cgi", "login", "signin",
                "signup", "register", "cart", "checkout", "search?"}

\* The reason the filter callback records for a link it rejects.
FilterReasonLastRule(l) ==
    IF SuspectedNonText(l) THEN "Suspected non-content URL"
    ELSE "Excluded file extension"
FilterReason(l) ==
    IF ExcludedExtension(l) THEN "Excluded file extension"
    ELSE "Suspected non-content URL"

\* The reason a map callback records when its candidate gives no record.
FetchReason(o) ==
    IF o.timeout THEN "URL fetch timeout" ELSE "No valid content extracted"

\* new Map() and Map.prototype.set
NoReasons == [l \in {} |-> ""]
MapSet(m, k, v) == [x \in DOMAIN m \cup {k} |-> IF x = k THEN v ELSE m[x]]

\* The filter callback.
FetchableExtensionOnly(l) == ~ExcludedExtension(l)
Fetchable(l) == ~ExcludedExtension(l) /\ ~SuspectedNonText(l)

\* Positions in items of the candidates that pass the filter, in order.
Kept(its) == SelectSeq([j \in 1..Len(its) |-> j], LAMBDA j : Fetchable(its[j].link))

\* Responses of the search call whose items all have a title and a URL.
ItemSeqs == UNION { [1..n -> { Item(l, TRUE) : l \in Links }] : n \in 0..MaxItems }

\* Responses of the search call with items of every kind.
MaxAnyItems == 2
AnyItemSeqs == UNION { [1..n -> Items] : n \in 0..MaxAnyItems }

\* What the race of one URL can give the map callback: a text of some length
\* (fetchContentFromUrl returned it) or the timer's rejection.
UrlOutcomes == {[timeout |-> FALSE, len |-> n] : n \in ContentLens}
               \cup {[timeout |-> TRUE, len |-> 0]}

\* got rejects at once when the link is not a URL: the catch of
\* fetchContentFromUrl returns "".
OutcomesOf(l) ==
    IF l.form = "url" THEN UrlOutcomes ELSE {[timeout |-> FALSE, len |-> 0]}

\* The callback's value: the record's content length, 0 standing for null.
CallbackValue(o) ==
    IF ~o.timeout /\ MapValue(o.len) = "record" THEN o.len ELSE 0

Positions(sq) == { sq[p].item : p \in 1..Len(sq) }

\* Promise.all: the values in the order of the promises, not of completion.
PromiseAllCompletionOrder(kept, done) == done
PromiseAll(kept, done) ==
    [j \in 1..Len(kept) |->
        LET p == CHOOSE p \in 1..Len(done) : done[p].item = kept[j] IN done[p]]

\* results.filter(Boolean)
NonNull(res) == SelectSeq(res, LAMBDA r : r.len > 0)

FitsBeforeAppend(ctxLen, newLen, budget) == ctxLen <= budget
Fits(ctxLen, newLen, budget) == ctxLen + newLen <= budget

\* The value the some() callback returns: true stops the walk.
CallbackNeverStops(fits) == FALSE
CallbackStops(fits) == ~fits

\* The catch of fetchDataFromGoogle: the search call rejected, answered
\* with a non-2xx status (axios throws), or its body has no items array.
SearchFailures == {"reject", "non2xx", "noitems"}

SearchFails(out) ==
    /\ spc = "search"
    /\ out \in SearchFailures
    /\ spc' = "done"
    /\ UNCHANGED <<maxChars, items, settled, results, idx, stopped, context>>
    /\ UNCHANGED mvars
    /\ UNCHANGED <<fvars, hvars, evars, rvars>>

\* The search call returns items; they are filtered and one callback per kept
\* candidate starts.  With nothing kept Promise.all resolves at once with [].
SearchReturns(its) ==
    /\ spc = "search"
    /\ items' = its
    /\ spc' = IF Kept(its) = <<>> THEN "done" ELSE "fetch"
    /\ failedUrls' = failedUrls + (Len(its) - Len(Kept(its)))
    /\ failureReasons' =
          [l \in { its[j].link : j \in { i \in 1..Len(its) : ~Fetchable(its[i].link) } }
              |-> FilterReason(l)]
    /\ UNCHANGED <<maxChars, settled, results, idx, stopped, context>>
    /\ UNCHANGED <<successfulUrls, abandoned, lateReturns>>
    /\ UNCHANGED <<fvars, hvars, evars, rvars>>

\* One map callback settles; when it is the last, Promise.all resolves.
UrlSettles(j, o) ==
    /\ spc = "fetch"
    /\ j \in {Kept(items)[p] : p \in 1..Len(Kept(items))} \ Positions(settled)
    /\ o \in OutcomesOf(items[j].link)
    /\ settled' = Append(settled, [item |-> j, len |-> CallbackValue(o),
                                   tl |-> TitleLenOf(items[j])])
    /\ IF CallbackValue(o) > 0
       THEN successfulUrls' = successfulUrls + 1 /\ UNCHANGED failedUrls
       ELSE failedUrls' = failedUrls + 1 /\ UNCHANGED successfulUrls
    /\ abandoned' = IF o.timeout THEN abandoned + 1 ELSE abandoned
    /\ failureReasons' =
          IF CallbackValue(o) > 0 THEN failureReasons
          ELSE MapSet(failureReasons, items[j].link, FetchReason(o))
    /\ UNCHANGED lateReturns
    /\ IF Len(settled') = Len(Kept(items))
       THEN /\ results' = PromiseAll(Kept(items), settled')
            /\ spc' = "fold"
       ELSE UNCHANGED <<results, spc>>
    /\ UNCHANGED <<maxChars, items, idx, stopped, context>>
    /\ UNCHANGED <<fvars, hvars, evars, rvars>>

\* One call of the some() callback.
FoldStep ==
    /\ spc = "fold"
    /\ ~stopped
    /\ idx <= Len(NonNull(results))
    /\ LET r == NonNull(results)[idx]
           newContent == RecordOf(1, r)
           fits == Fits(StrLen(context), StrLen(newContent), maxChars)
       IN /\ context' = IF fits THEN context \o newContent ELSE context
          /\ stopped' = CallbackStops(fits)
          /\ idx' = idx + 1
    /\ UNCHANGED <<spc, maxChars, items, settled, results>>
    /\ UNCHANGED mvars
    /\ UNCHANGED <<fvars, hvars, evars, rvars>>

\* some() is over: return context.
FoldReturns ==
    /\ spc = "fold"
    /\ stopped \/ idx > Len(NonNull(results))
    /\ spc' = "done"
    /\ UNCHANGED <<maxChars, items, settled, results, idx, stopped, context>>
    /\ UNCHANGED mvars
    /\ UNCHANGED <<fvars, hvars, evars, rvars>>

\* The value of a race the timer has won is settled: what the abandoned
\* fetchContentFromUrl returns later is read by nobody.
LateReturnCountedAgain == TRUE
LateReturnCounted == FALSE

\* A fetch abandoned by its callback returns.
AbandonedFetchReturns ==
    /\ spc \in {"fetch", "fold", "done"}
    /\ abandoned > 0
    /\ abandoned' = abandoned - 1
    /\ lateReturns' = lateReturns + 1
    /\ IF LateReturnCounted
       THEN \E n \in ContentLens :
               IF MapValue(n) = "record"
               THEN successfulUrls' = successfulUrls + 1 /\ UNCHANGED failedUrls
               ELSE failedUrls' = failedUrls + 1 /\ UNCHANGED successfulUrls
       ELSE UNCHANGED <<successfulUrls, failedUrls>>
    /\ UNCHANGED failureReasons
    /\ UNCHANGED <<spc, maxChars, items, settled, results, idx, stopped, context>>
    /\ UNCHANGED <<fvars, hvars, evars, rvars>>

\* fetchDataFromGoogle as a function of what the query met: the walk over
\* the non-null results from position k on.
RECURSIVE Walk(_, _, _, _, _)
Walk(q, res, k, ctx, budget) ==
    IF k > Len(res) THEN ctx
    ELSE LET newContent == RecordOf(q, res[k])
             fits == Fits(StrLen(ctx), StrLen(newContent), budget)
             next == IF fits THEN ctx \o newContent ELSE ctx
         IN IF CallbackStops(fits) THEN next
            ELSE Walk(q, res, k + 1, next, budget)

---------------------------------------------------------------------------
(* The budgets a query can be given *)

MaxQueries == 2
DefaultMaxTotalChars == 200000

\* Values of maxTotalChars a caller supplies.
MaxTotalCharsValues == {-1, 0, 300, 1001}

\* Math.floor(maxTotalChars / queries.length)
CharsPerQueryTruncated(mtc, n) == IF mtc >= 0 THEN mtc \div n ELSE -((-mtc) \div n)
CharsPerQueryUndivided(mtc, n) == mtc
CharsPerQuery(mtc, n) == mtc \div n

Budgets == { CharsPerQuery(m, n) : m \in MaxTotalCharsValues, n \in 1..MaxQueries }

\* The sequential variant of fetchDataFromGoogle: the fold that appends the
\* leading part of the first record that does not fit.

\* entry.slice(0, remainingChars), appended when remainingChars > 0.
RemainderWhole(entry, remainingChars) == entry
Remainder(entry, remainingChars) ==
    IF remainingChars > 0 THEN Take(entry, remainingChars) ELSE <<>>

\* results.filter(Boolean) of the variant: one record per candidate whose
\* content is longer than MinContentLen, in the order of the candidates.
SequentialResults ==
    UNION { { [k \in 1..n |-> [item |-> k, len |-> lens[k], tl |-> TitleLen]] :
                lens \in [1..n -> { c \in ContentLens : MapValue(c) = "record" }] } :
            n \in 0..MaxItems }

\* One iteration of the for loop; `stopped` records the break.
SequentialFoldStep ==
    /\ spc = "seqfold"
    /\ ~stopped
    /\ idx <= Len(results)
    /\ LET entry == RecordOf(1, results[idx])
           remainingChars == maxChars - StrLen(context)
       IN IF Fits(StrLen(context), StrLen(entry), maxChars)
          THEN /\ context' = context \o entry
               /\ idx' = idx + 1
               /\ UNCHANGED stopped
          ELSE /\ context' = context \o Remainder(entry, remainingChars)
               /\ stopped' = TRUE
               /\ UNCHANGED idx
    /\ UNCHANGED <<spc, maxChars, items, settled, results>>
    /\ UNCHANGED mvars
    /\ UNCHANGED <<fvars, hvars, evars, rvars>>

\* The loop is over: return context.
SequentialFoldReturns ==
    /\ spc = "seqfold"
    /\ stopped \/ idx > Len(results)
    /\ spc' = "done"
    /\ UNCHANGED <<maxChars, items, settled, results, idx, stopped, context>>
    /\ UNCHANGED mvars
    /\ UNCHANGED <<fvars, hvars, evars, rvars>>

---------------------------------------------------------------------------
(* app.post("/query") *)

GlobalTimeoutMs == 60000
HeaderOverhead == 6
SeparatorLen == 83
QueryLen == 1
MaxHits == 2
Ticks == 2

\* The clock of the handler advances in steps of this many milliseconds.
TickMs == GlobalTimeoutMs \div Ticks

\* Content lengths of the records met by the handler's queries.
HitLens == {101}

Requests ==
    [ queries : {[kind |-> "missing", len |-> 0], [kind |-> "notarray", len |-> 1]}
                \cup {[kind |-> "array", len |-> n] : n \in 0..MaxQueries},
      googleApiKey : BOOLEAN,
      googleSearchEngineId : BOOLEAN,
      maxTotalChars : {[given |-> FALSE, val |-> 0]}
                      \cup {[given |-> TRUE, val |-> v] : v \in MaxTotalCharsValues} ]

\* !queries || !Array.isArray(queries) || queries.length === 0
QueriesInvalid(r) == r.queries.kind # "array" \/ r.queries.len = 0

\* !googleApiKey || !googleSearchEngineId
CredentialsMissingKeyOnly(r) == ~r.googleApiKey
CredentialsMissing(r) == ~r.googleApiKey \/ ~r.googleSearchEngineId

\* maxTotalChars = 200000 in the destructuring
MaxTotalChars(r) ==
    IF r.maxTotalChars.given THEN r.maxTotalChars.val ELSE DefaultMaxTotalChars

NumQueries(r) == r.queries.len

\* The longest run of whole pieces of s within m characters.
RECURSIVE TakeWhole(_, _)
TakeWhole(s, m) ==
    IF s = <<>> \/ Head(s).n > m THEN <<>>
    ELSE <<Head(s)>> \o TakeWhole(Tail(s), m - Head(s).n)

\* String.prototype.slice(0, end)
SliceWholePieces(str, end) ==
    TakeWhole(str, IF end < 0 THEN StrLen(str) + end ELSE end)
SliceNothing(str, end) == str
Slice(str, end) ==
    LET len == StrLen(str)
        to == IF end < 0 THEN (IF len + end > 0 THEN len + end ELSE 0)
              ELSE (IF end < len THEN end ELSE len)
    IN Take(str, to)

\* `**${query}:**\n${queryContext}\n---...---\n\n\n`
Block(q, section) ==
    <<Piece("hdr", q, 0, HeaderOverhead + QueryLen)>> \o section
    \o <<Piece("sep", q, 0, SeparatorLen)>>

\* results.forEach(...) over the queries 1..n in input order.
RECURSIVE BlocksReversed(_, _)
BlocksReversed(ctxs, n) ==
    IF n = 0 THEN <<>> ELSE Block(n, ctxs[n]) \o BlocksReversed(ctxs, n - 1)
RECURSIVE Blocks(_, _)
Blocks(ctxs, n) ==
    IF n = 0 THEN <<>> ELSE Blocks(ctxs, n - 1) \o Block(n, ctxs[n])

\* The race includes timeoutPromise, and its rejection is caught by the
\* inner try/catch, which only logs.
RaceWithoutTimer == FALSE
RaceHasTimer == TRUE

TimeoutRethrown == FALSE
TimeoutCaught == TRUE

\* The values all callbacks of a query with k candidates can settle with.
HitValues(k) ==
    { [j \in 1..k |-> [item |-> j, len |-> f[j], tl |-> TitleLen]] :
        f \in [1..k -> HitLens \cup {0}] }

\* res.json / res.status(...).json
Send(status, body, qs) ==
    /\ hpc' = "responded"
    /\ respStatus' = status
    /\ respBody' = body
    /\ respAt' = hnow
    /\ respDone' = { q \in DOMAIN qs : qs[q] = "done" }
    /\ nresp' = nresp + 1

Validate ==
    /\ hpc = "recv"
    /\ IF QueriesInvalid(req) \/ CredentialsMissing(req)
       THEN /\ Send(400, <<>>, qst)
            /\ UNCHANGED <<qst, qhits, qctx, qfail, qbudget, ioCalls>>
       ELSE /\ hpc' = "racing"
            /\ qst' = [q \in 1..NumQueries(req) |-> "search"]
            /\ qhits' = [q \in 1..NumQueries(req) |-> 0]
            /\ qctx' = [q \in 1..NumQueries(req) |-> <<>>]
            /\ qfail' = [q \in 1..NumQueries(req) |-> FALSE]
            /\ qbudget' = [q \in 1..NumQueries(req) |->
                              CharsPerQuery(MaxTotalChars(req), NumQueries(req))]
            /\ ioCalls' = NumQueries(req)
            /\ UNCHANGED <<respStatus, respBody, respAt, respDone, nresp>>
    /\ UNCHANGED <<req, hnow, timerFired, timedOut, outOfOrder>>
    /\ UNCHANGED <<fvars, qvars, evars, rvars>>

\* A settled race ignores what its promises do later.
RaceNeverSettled(h) == TRUE
RacePending(h) == h = "racing"

\* The catch of fetchDataFromGoogle turns a failed search into the section "".
SearchRethrown == FALSE
SearchCaught == TRUE

\* Query q's promise resolves with section; when it is the last one and the
\* race is still pending, Promise.all wins the race and the response is sent.
Resolve(q, section) ==
    /\ qst' = [qst EXCEPT ![q] = "done"]
    /\ qctx' = [qctx EXCEPT ![q] = section]
    /\ outOfOrder' = (outOfOrder \/ \E p \in 1..(q - 1) : qst[p] # "done")
    /\ IF RacePending(hpc) /\ \A p \in DOMAIN qst' : qst'[p] = "done"
       THEN Send(200, Slice(Blocks(qctx', NumQueries(req)), MaxTotalChars(req)), qst')
       ELSE UNCHANGED <<hpc, respStatus, respBody, respAt, respDone, nresp>>

QuerySearchFails(q, out) ==
    /\ hpc # "recv"
    /\ q \in DOMAIN qst
    /\ qst[q] = "search"
    /\ out \in SearchFailures
    /\ qfail' = [qfail EXCEPT ![q] = TRUE]
    /\ IF SearchCaught
       THEN Resolve(q, <<>>)
       ELSE \* the promise of q rejects, and with it Promise.all and the race
            /\ qst' = [qst EXCEPT ![q] = "done"]
            /\ IF RacePending(hpc)
               THEN Send(200, Slice(<<>>, MaxTotalChars(req)), qst')
               ELSE UNCHANGED <<hpc, respStatus, respBody, respAt, respDone, nresp>>
            /\ UNCHANGED <<qctx, outOfOrder>>
    /\ UNCHANGED <<req, qbudget, qhits, hnow, timerFired, timedOut, ioCalls>>
    /\ UNCHANGED <<fvars, qvars, evars, rvars>>

\* The search returned; k candidates pass the filter.
QuerySearchReturns(q, k) ==
    /\ hpc # "recv"
    /\ q \in DOMAIN qst
    /\ qst[q] = "search"
    /\ IF k = 0
       THEN Resolve(q, <<>>) /\ UNCHANGED <<qhits, ioCalls>>
       ELSE /\ qst' = [qst EXCEPT ![q] = "fetch"]
            /\ qhits' = [qhits EXCEPT ![q] = k]
            /\ ioCalls' = ioCalls + k
            /\ UNCHANGED <<qctx, hpc, respStatus, respBody, respAt, respDone,
                           nresp, outOfOrder>>
    /\ UNCHANGED <<req, qbudget, qfail, hnow, timerFired, timedOut>>
    /\ UNCHANGED <<fvars, qvars, evars, rvars>>

\* The last callback of query q settled: Promise.all, the walk, the return.
QueryFetchesSettle(q, vals) ==
    /\ hpc # "recv"
    /\ q \in DOMAIN qst
    /\ qst[q] = "fetch"
    /\ vals \in HitValues(qhits[q])
    /\ Resolve(q, Walk(q, NonNull(vals), 1, <<>>, qbudget[q]))
    /\ UNCHANGED <<req, qbudget, qhits, qfail, hnow, timerFired, timedOut, ioCalls>>
    /\ UNCHANGED <<fvars, qvars, evars, rvars>>

\* Time passes while the race is pending and the timer is not yet due.
Tick ==
    /\ hpc = "racing"
    /\ hnow < GlobalTimeoutMs
    /\ hnow' = IF hnow + TickMs < GlobalTimeoutMs THEN hnow + TickMs
                ELSE GlobalTimeoutMs
    /\ UNCHANGED <<hpc, req, qbudget, qst, qhits, qctx, qfail, timerFired, timedOut,
                   respStatus, respBody, respAt, respDone, nresp, ioCalls,
                   outOfOrder>>
    /\ UNCHANGED <<fvars, qvars, evars, rvars>>

\* setTimeout(() => reject(new Error("Operation timeout")), 60000): a pending
\* race rejects; the inner catch logs and contextData stays "".
GlobalTimerFires ==
    /\ hpc \in {"racing", "responded"}
    /\ respStatus # 400
    /\ ~timerFired
    /\ hpc = "racing" => hnow >= GlobalTimeoutMs
    /\ timerFired' = TRUE
    /\ IF hpc = "racing" /\ RaceHasTimer
       THEN IF TimeoutCaught
            THEN /\ timedOut' = TRUE
                 /\ Send(200, Slice(<<>>, MaxTotalChars(req)), qst)
            ELSE /\ timedOut' = FALSE
                 /\ Send(500, <<>>, qst)
       ELSE UNCHANGED <<hpc, timedOut, respStatus, respBody, respAt, respDone, nresp>>
    /\ UNCHANGED <<req, qbudget, qst, qhits, qctx, qfail, hnow, ioCalls, outOfOrder>>
    /\ UNCHANGED <<fvars, qvars, evars, rvars>>

---------------------------------------------------------------------------
(* extractTextFromHTML.  A text is a sequence of characters; a token is a  *)
(* text without whitespace.                                                *)

Whitespace == {" ", "\n", "\t"}
Letters == {"a", "A", "n", "x"}
Chars == Whitespace \cup Letters

MaxMarkdownLen == 4

\* What turndownService.turndown can return.
Markdowns == UNION { [1..n -> Chars] : n \in 0..MaxMarkdownLen }

RECURSIVE SkipSpace(_)
SkipSpace(s) ==
    IF s # <<>> /\ Head(s) \in Whitespace THEN SkipSpace(Tail(s)) ELSE s

\* .replace(/\s\s+/g, " "): every run of two or more whitespace characters
\* becomes one space; a single whitespace character stays as it is.
RECURSIVE CollapseRuns(_)
CollapseRuns(s) ==
    IF s = <<>> THEN <<>>
    ELSE IF Len(s) >= 2 /\ s[1] \in Whitespace /\ s[2] \in Whitespace
         THEN <<" ">> \o CollapseRuns(SkipSpace(s))
         ELSE <<Head(s)>> \o CollapseRuns(Tail(s))

\* .replace(/\n/g, " ")
ReplaceNewlines(s) == [k \in 1..Len(s) |-> IF s[k] = "\n" THEN " " ELSE s[k]]

RECURSIVE TrimEnd(_)
TrimEnd(s) ==
    IF s # <<>> /\ s[Len(s)] \in Whitespace
    THEN TrimEnd(SubSeq(s, 1, Len(s) - 1))
    ELSE s

\* .trim()
Trim(s) == TrimEnd(SkipSpace(s))

\* .split(/\s+/): the texts between the whitespace runs, the empty text
\* before a leading and after a trailing run included ("" gives [""]).
RECURSIVE SplitFrom(_, _)
SplitFrom(s, cur) ==
    IF s = <<>> THEN <<cur>>
    ELSE IF Head(s) \in Whitespace
         THEN <<cur>> \o SplitFrom(SkipSpace(s), <<>>)
         ELSE SplitFrom(Tail(s), Append(cur, Head(s)))

Split(s) == SplitFrom(s, <<>>)

toLowerCaseNone(w) == w
toLowerCase(w) == [k \in 1..Len(w) |-> IF w[k] = "A" THEN "a" ELSE w[k]]

\* Two entries of the stopword package's English list.
englishStopwords == {<<"a">>, <<"a", "n">>}

\* removeStopwords(tokens, stopwords) of the stopword package: keeps the
\* tokens whose lower-cased form is not in the list.
removeStopwords(tokens, stopwords) ==
    SelectSeq(tokens, LAMBDA w : toLowerCase(w) \notin stopwords)

\* .join(" ")
RECURSIVE Join(_)
Join(tokens) ==
    IF tokens = <<>> THEN <<>>
    ELSE IF Len(tokens) = 1 THEN tokens[1]
    ELSE tokens[1] \o <<" ">> \o Join(Tail(tokens))

CleanSpaces(md) == Trim(ReplaceNewlines(CollapseRuns(md)))
CleanWords(s) == Join(removeStopwords(Split(s), englishStopwords))
Clean(md) == CleanWords(CleanSpaces(md))

\* cleanedMarkdown after the two replaces and the trim.
CleanWhitespace ==
    /\ epc = "markdown"
    /\ cleaned' = CleanSpaces(markdown)
    /\ epc' = "spaced"
    /\ UNCHANGED <<markdown, pageUrl, anchors, hrefs, urls>>
    /\ UNCHANGED <<fvars, qvars, hvars, rvars>>

\* cleanedMarkdown after stopword removal: the `markdown` of the result.
RemoveStopwords ==
    /\ epc = "spaced"
    /\ cleaned' = CleanWords(cleaned)
    /\ epc' = "text"
    /\ UNCHANGED <<markdown, pageUrl, anchors, hrefs, urls>>
    /\ UNCHANGED <<fvars, qvars, hvars, rvars>>

\* Links.  A URL is its origin and the extension its path ends in; an href
\* attribute is an absolute URL, a path relative to the page, or a string
\* that does not parse as a URL.
Origins == {"https://a.example", "https://b.example"}
HrefExtensions == {"", "js", "pdf", "svg"}

\* Two of the alternatives of the regular expression excludedExtensions.
excludedExtensions == {"js", "pdf"}

AbsoluteHref(o, ext) == [form |-> "absolute", origin |-> o, ext |-> ext]
RelativeHref(ext) == [form |-> "relative", origin |-> "", ext |-> ext]
InvalidHref == [form |-> "invalid", origin |-> "", ext |-> ""]

Hrefs ==
    { AbsoluteHref(o, e) : o \in Origins, e \in HrefExtensions }
        \cup { RelativeHref(e) : e \in HrefExtensions } \cup {InvalidHref}

MaxHrefs == 2
HrefSeqs == UNION { [1..n -> Hrefs] : n \in 0..MaxHrefs }

\* getHrefs(html, { baseUrl }) of the get-hrefs package: the href of every
\* anchor, resolved against baseUrl.  Whether it passes on an href it
\* cannot resolve is left open (passesInvalid).
getHrefs(as, baseUrl, passesInvalid) ==
    LET resolve(h) == IF h.form = "relative"
                      THEN AbsoluteHref(baseUrl, h.ext) ELSE h
        resolved == [k \in 1..Len(as) |-> resolve(as[k])]
    IN  SelectSeq(resolved, LAMBDA h : passesInvalid \/ h.form # "invalid")

\* new URL(href, url): throws on a string that does not parse.
URLThrows(href) == href.form = "invalid"
URL(href, url) ==
    IF href.form = "relative" THEN AbsoluteHref(url, href.ext) ELSE href

\* The callback of hrefs.filter, its catch included.
KeepHrefAnyOrigin(href, url) ==
    IF URLThrows(href) THEN FALSE
    ELSE URL(href, url).ext \notin excludedExtensions
KeepHref(href, url) ==
    IF URLThrows(href) THEN FALSE
    ELSE /\ URL(href, url).origin = url
         /\ URL(href, url).ext \notin excludedExtensions

GetHrefsReturns ==
    /\ epc = "html"
    /\ \E passesInvalid \in BOOLEAN :
          hrefs' = getHrefs(anchors, pageUrl, passesInvalid)
    /\ epc' = "hrefs"
    /\ UNCHANGED <<markdown, cleaned, pageUrl, anchors, urls>>
    /\ UNCHANGED <<fvars, qvars, hvars, rvars>>

FilterHrefs ==
    /\ epc = "hrefs"
    /\ urls' = SelectSeq(hrefs, LAMBDA h : KeepHref(h, pageUrl))
    /\ epc' = "links"
    /\ UNCHANGED <<markdown, cleaned, pageUrl, anchors, hrefs>>
    /\ UNCHANGED <<fvars, qvars, hvars, rvars>>

---------------------------------------------------------------------------
(* app.post("/"): the single-URL endpoint.  Requests are handled            *)
(* concurrently; each has its own position, response and counters.          *)

MaxRootRequests == 2
RootRequests == 1..MaxRootRequests

\* req.body.url: absent, the empty string, or a URL.
UrlValues == {"missing", "empty", "given"}

\* !url
UrlMissing(u) == u \in {"missing", "empty"}

\* What optimizedGotScraping.get can end with here.
RootResponses == HttpResponses \cup {HttpResp(304, "text/html", FALSE, 0)}
RootErrors == TransportErrors \cup {GotTimeout}

\* The status the catch answers with.
CatchStatusAlways500(err) == 500
CatchStatus(err) == IF err.name = "TimeoutError" THEN 504 ELSE 500

\* The error extractTextFromHTML throws when it throws.
ExtractError == ErrResp("TypeError", "")

\* res.status(status).json(...), or res.json(result) with status 200.
RootSend(i, status, body) ==
    /\ rstatus' = [rstatus EXCEPT ![i] = status]
    /\ rbody' = [rbody EXCEPT ![i] = body]
    /\ rsent' = [rsent EXCEPT ![i] = @ + 1]
    /\ rpc' = [rpc EXCEPT ![i] = "responded"]

\* The handler up to its await: the url check and the start of the GET.
RootValidate(i) ==
    /\ rpc[i] = "recv"
    /\ IF UrlMissing(rurl[i])
       THEN /\ RootSend(i, 400, "error")
            /\ UNCHANGED rgets
       ELSE /\ rpc' = [rpc EXCEPT ![i] = "get"]
            /\ rgets' = [rgets EXCEPT ![i] = @ + 1]
            /\ UNCHANGED <<rstatus, rbody, rsent>>
    /\ UNCHANGED <<rurl, rgot, rthrew>>
    /\ UNCHANGED <<fvars, qvars, hvars, evars>>

\* The GET resolved with a response: the rest of the try, and the catch
\* when extractTextFromHTML throws.
RootGetResolves(i, r) ==
    /\ rpc[i] = "get"
    /\ rgot' = [rgot EXCEPT ![i] = r]
    /\ IF r.status = 404
       THEN RootSend(i, 404, "error") /\ UNCHANGED rthrew
       ELSE IF ~ResponseOk(r.status)
       THEN RootSend(i, r.status, "error") /\ UNCHANGED rthrew
       ELSE \E threw \in BOOLEAN :
               /\ rthrew' = [rthrew EXCEPT ![i] = threw]
               /\ IF threw
                  THEN RootSend(i, CatchStatus(ExtractError), "error")
                  ELSE RootSend(i, 200, "result")
    /\ UNCHANGED <<rurl, rgets>>
    /\ UNCHANGED <<fvars, qvars, hvars, evars>>

\* The GET rejected: the catch.
RootGetRejects(i, err) ==
    /\ rpc[i] = "get"
    /\ rgot' = [rgot EXCEPT ![i] = err]
    /\ RootSend(i, CatchStatus(err), "error")
    /\ UNCHANGED <<rurl, rgets, rthrew>>
    /\ UNCHANGED <<fvars, qvars, hvars, evars>>

---------------------------------------------------------------------------
(* Specifications *)

RootIdle ==
    /\ rpc = <<>>
    /\ rurl = <<>>
    /\ rgot = <<>>
    /\ rthrew = <<>>
    /\ rstatus = <<>>
    /\ rbody = <<>>
    /\ rsent = <<>>
    /\ rgets = <<>>

ExtractIdle ==
    /\ epc = "idle"
    /\ markdown = <<>>
    /\ cleaned = <<>>
    /\ pageUrl = ""
    /\ anchors = <<>>
    /\ hrefs = <<>>
    /\ urls = <<>>

HandlerIdle ==
    /\ hpc = "idle"
    /\ req = [queries |-> [kind |-> "missing", len |-> 0],
              googleApiKey |-> FALSE, googleSearchEngineId |-> FALSE,
              maxTotalChars |-> [given |-> FALSE, val |-> 0]]
    /\ qst = <<>>
    /\ qhits = <<>>
    /\ qctx = <<>>
    /\ qfail = <<>>
    /\ qbudget = <<>>
    /\ hnow = 0
    /\ timerFired = FALSE
    /\ timedOut = FALSE
    /\ respStatus = 0
    /\ respBody = <<>>
    /\ respAt = 0
    /\ respDone = {}
    /\ nresp = 0
    /\ ioCalls = 0
    /\ outOfOrder = FALSE

QueryIdle ==
    /\ spc = "idle"
    /\ maxChars = 0
    /\ items = <<>>
    /\ settled = <<>>
    /\ results = <<>>
    /\ idx = 1
    /\ stopped = FALSE
    /\ context = <<>>
    /\ successfulUrls = 0
    /\ failedUrls = 0
    /\ abandoned = 0
    /\ lateReturns = 0
    /\ failureReasons = NoReasons

\* The fetch layer at rest, in the specifications of the other layers.
FetchIdle ==
    /\ fpc = "idle"
    /\ attempt = 0
    /\ gets = 0
    /\ hist = <<>>
    /\ delays = <<>>
    /\ fret = -1
    /\ now = 0
    /\ due = 0
    /\ race = "idle"
    /\ mapRes = "idle"
    /\ logs = 0
    /\ extracts = 0

InitFetch ==
    /\ QueryIdle
    /\ HandlerIdle
    /\ ExtractIdle
    /\ RootIdle
    /\ fpc = "start"
    /\ attempt = 0
    /\ gets = 0
    /\ hist = <<>>
    /\ delays = <<>>
    /\ fret = -1
    /\ now = 0
    /\ due = 0
    /\ race = "pending"
    /\ mapRes = "pending"
    /\ logs = 0
    /\ extracts = 0

NextFetch == StartUrl \/ GetReturns \/ BackoffDone \/ UrlTimerFires

SpecFetch == InitFetch /\ [][NextFetch]_vars

\* Every GET returns or fails, and every timer that is due fires.
SpecFetchLive ==
    /\ SpecFetch
    /\ WF_vars(StartUrl)
    /\ WF_vars(GetReturns)
    /\ WF_vars(BackoffDone)
    /\ WF_vars(UrlTimerFires)

InitQuery ==
    /\ FetchIdle
    /\ HandlerIdle
    /\ ExtractIdle
    /\ RootIdle
    /\ spc = "search"
    /\ maxChars \in Budgets
    /\ items = <<>>
    /\ settled = <<>>
    /\ results = <<>>
    /\ idx = 1
    /\ stopped = FALSE
    /\ context = <<>>
    /\ successfulUrls = 0
    /\ failedUrls = 0
    /\ abandoned = 0
    /\ lateReturns = 0
    /\ failureReasons = NoReasons

NextQuery ==
    \/ \E out \in SearchFailures : SearchFails(out)
    \/ \E its \in ItemSeqs : SearchReturns(its)
    \/ \E j \in 1..MaxItems, o \in UrlOutcomes : UrlSettles(j, o)
    \/ FoldStep
    \/ FoldReturns

SpecQuery == InitQuery /\ [][NextQuery]_vars

\* fetchDataFromGoogle on responses that may hold malformed links and items
\* without a link or a title.
NextItems ==
    \/ \E out \in SearchFailures : SearchFails(out)
    \/ \E its \in AnyItemSeqs : SearchReturns(its)
    \/ \E j \in 1..MaxAnyItems, o \in UrlOutcomes : UrlSettles(j, o)
    \/ FoldStep
    \/ FoldReturns
    \/ AbandonedFetchReturns

SpecItems == InitQuery /\ [][NextItems]_vars

\* The fold of the sequential variant, from the results of Promise.all.
InitSequential ==
    /\ FetchIdle
    /\ HandlerIdle
    /\ ExtractIdle
    /\ RootIdle
    /\ spc = "seqfold"
    /\ maxChars \in Budgets
    /\ items = <<>>
    /\ settled = <<>>
    /\ results \in SequentialResults
    /\ idx = 1
    /\ stopped = FALSE
    /\ context = <<>>
    /\ successfulUrls = 0
    /\ failedUrls = 0
    /\ abandoned = 0
    /\ lateReturns = 0
    /\ failureReasons = NoReasons

NextSequential == SequentialFoldStep \/ SequentialFoldReturns

SpecSequential == InitSequential /\ [][NextSequential]_vars

Init ==
    /\ FetchIdle
    /\ QueryIdle
    /\ ExtractIdle
    /\ RootIdle
    /\ hpc = "recv"
    /\ req \in Requests
    /\ qst = <<>>
    /\ qhits = <<>>
    /\ qctx = <<>>
    /\ qfail = <<>>
    /\ qbudget = <<>>
    /\ hnow = 0
    /\ timerFired = FALSE
    /\ timedOut = FALSE
    /\ respStatus = 0
    /\ respBody = <<>>
    /\ respAt = 0
    /\ respDone = {}
    /\ nresp = 0
    /\ ioCalls = 0
    /\ outOfOrder = FALSE

Next ==
    \/ Validate
    \/ \E q \in 1..MaxQueries, out \in SearchFailures : QuerySearchFails(q, out)
    \/ \E q \in 1..MaxQueries, k \in 0..MaxHits : QuerySearchReturns(q, k)
    \/ \E q \in 1..MaxQueries, k \in 1..MaxHits :
          \E vals \in HitValues(k) : QueryFetchesSettle(q, vals)
    \/ Tick
    \/ GlobalTimerFires

Spec == Init /\ [][Next]_vars

\* extractTextFromHTML: from the markdown of the page to the cleaned text.
InitText ==
    /\ FetchIdle
    /\ QueryIdle
    /\ HandlerIdle
    /\ RootIdle
    /\ epc = "markdown"
    /\ markdown \in Markdowns
    /\ cleaned = <<>>
    /\ pageUrl = ""
    /\ anchors = <<>>
    /\ hrefs = <<>>
    /\ urls = <<>>

NextText == CleanWhitespace \/ RemoveStopwords

SpecText == InitText /\ [][NextText]_vars

\* extractTextFromHTML: from the anchors of the page to the links returned.
InitLinks ==
    /\ FetchIdle
    /\ QueryIdle
    /\ HandlerIdle
    /\ RootIdle
    /\ epc = "html"
    /\ markdown = <<>>
    /\ cleaned = <<>>
    /\ pageUrl \in Origins
    /\ anchors \in HrefSeqs
    /\ hrefs = <<>>
    /\ urls = <<>>

NextLinks == GetHrefsReturns \/ FilterHrefs

SpecLinks == InitLinks /\ [][NextLinks]_vars

NoResponse == [kind |-> "none", status |-> 0, name |-> "", code |-> "",
               ctype |-> "", markup |-> FALSE, len |-> 0]

InitRoot ==
    /\ FetchIdle
    /\ QueryIdle
    /\ HandlerIdle
    /\ ExtractIdle
    /\ rpc = [i \in RootRequests |-> "recv"]
    /\ rurl \in [RootRequests -> UrlValues]
    /\ rgot = [i \in RootRequests |-> NoResponse]
    /\ rthrew = [i \in RootRequests |-> FALSE]
    /\ rstatus = [i \in RootRequests |-> 0]
    /\ rbody = [i \in RootRequests |-> "none"]
    /\ rsent = [i \in RootRequests |-> 0]
    /\ rgets = [i \in RootRequests |-> 0]

NextRoot ==
    \/ \E i \in RootRequests : RootValidate(i)
    \/ \E i \in RootRequests, r \in RootResponses : RootGetResolves(i, r)
    \/ \E i \in RootRequests, err \in RootErrors : RootGetRejects(i, err)

SpecRoot == InitRoot /\ [][NextRoot]_vars

\* Every GET resolves or rejects.
SpecRootLive == SpecRoot /\ WF_vars(NextRoot)

\* Timers are run by the event loop: time passes and a due timer fires.
\* Nothing makes a search call or a page fetch complete.
SpecLive == Spec /\ WF_vars(Tick) /\ WF_vars(GlobalTimerFires)

---------------------------------------------------------------------------
(* Claims about fetchContentFromUrl (checked under SpecFetch) *)

\* A response that the retry policy names as retryable.
RetryableFailure(r) ==
    \/ r.kind = "http" /\ r.status \in {429, 502, 503, 504}
    \/ r.kind = "error" /\ r.code \in {"ECONNRESET", "ECONNREFUSED", "ETIMEDOUT"}
    \/ r.kind = "error" /\ r.name = "TimeoutError"

\* A failure that is not retryable: another non-success status, another error.
NonRetryableFailure(r) ==
    \/ /\ r.kind = "http"
       /\ ~((r.status >= 200 /\ r.status <= 299) \/ r.status = 304)
       /\ r.status \notin {429, 502, 503, 504}
    \/ r.kind = "error" /\ ~RetryableFailure(r)

\* A 200 page that passes both gates and extracts to more than 100 characters.
Valid200(r) ==
    /\ r.kind = "http" /\ r.status = 200
    /\ r.ctype = "text/html; charset=utf-8" /\ r.markup
    /\ r.len > 100

\* C8: for one URL at most 3 GETs are issued (1 initial + 2 retries) and at
\* most 2 backoff delays are taken, whatever mix of retryable statuses and
\* retryable transport errors occurs: both kinds of retry use one budget.
C8_AtMostThreeAttempts ==
    /\ gets <= 3
    /\ Len(hist) <= 3
    /\ Len(delays) <= 2

\* C8 witness: three GETs were issued, the first retry caused by an HTTP
\* status and the second by a transport error.
C8_Witness ==
    /\ gets = 3
    /\ Len(hist) = 3
    /\ hist[1].kind = "http" /\ RetryableFailure(hist[1])
    /\ hist[2].kind = "error" /\ RetryableFailure(hist[2])

\* C9: a non-retryable failure (a non-success status outside 429/502/503/504,
\* or an error other than reset/refused/timeout) ends the fetch at once, at
\* any attempt index: it is the last response, the function has returned the
\* empty string, and neither a further GET nor a backoff delay follows it.
C9_NonRetryableEndsFetch ==
    \A j \in 1..Len(hist) :
        NonRetryableFailure(hist[j]) =>
            /\ j = Len(hist)
            /\ fpc = "returned"
            /\ fret = 0
            /\ gets = j
            /\ Len(delays) = j - 1

\* C9 witness: a non-retryable failure met on a later attempt (after a retry).
C9_Witness ==
    /\ Len(hist) >= 2
    /\ NonRetryableFailure(hist[Len(hist)])
    /\ fpc = "returned"

\* C10 as stated: 503-like failures on attempts 1 and 2 and a valid 200 page
\* on attempt 3 always give the URL a record, after delays of 2 s and 4 s.
C10_Original ==
    ( /\ fpc = "returned"
      /\ Len(hist) = 3
      /\ RetryableFailure(hist[1])
      /\ RetryableFailure(hist[2])
      /\ Valid200(hist[3]) )
    => (mapRes = "record" /\ delays = <<2000, 4000>>)

\* C10 amended: the delays are exactly 2 s then 4 s and fetchContentFromUrl
\* returns the page's text; the URL gets its record provided the 20 s per-URL
\* timer has not fired before the third attempt returned.
C10_RetryThenSuccess ==
    ( /\ fpc = "returned"
      /\ Len(hist) = 3
      /\ RetryableFailure(hist[1])
      /\ RetryableFailure(hist[2])
      /\ Valid200(hist[3]) )
    => /\ delays = <<2000, 4000>>
       /\ fret = hist[3].len
       /\ race # "timeout" => mapRes = "record"

\* C10 witness: 503, 503, valid 200 page, and the record was produced.
C10_Witness ==
    /\ fpc = "returned"
    /\ Len(hist) = 3
    /\ hist[1].kind = "http" /\ hist[1].status = 503
    /\ hist[2].kind = "http" /\ hist[2].status = 503
    /\ Valid200(hist[3])
    /\ mapRes = "record"

\* C11 as stated: when the timer raced against the URL's fetch has won, a
\* later attempt that succeeds still makes the URL contribute its record.
C11_Original ==
    ( /\ race = "timeout"
      /\ fpc = "returned"
      /\ Valid200(hist[Len(hist)]) )
    => mapRes = "record"

\* C11 amended: the timer raced against the fetch bounds the URL, not one
\* attempt: once it has won the callback's value is null for good, whatever
\* the abandoned fetch goes on to return.  The timeout of one attempt is
\* got's request timeout: that attempt alone fails, a retry follows under
\* the shared budget when fewer than 3 attempts were made, and a later valid
\* page gives the URL its record when it returns before the raced timer.
C11_TimerEndsUrl ==
    /\ race = "timeout" => mapRes = "null"
    /\ \A j \in 1..Len(hist) :
          (hist[j] = GotTimeout /\ j < 3) =>
              /\ Len(delays) >= j
              /\ gets > j \/ fpc = "backoff"
    /\ ( /\ fpc = "returned"
         /\ race # "timeout"
         /\ Valid200(hist[Len(hist)]) )
       => mapRes = "record"

\* C11 witness: the raced timer won during a retry sequence, the fetch went
\* on to extract a valid page, and the URL still has no record.
C11_Witness ==
    /\ race = "timeout"
    /\ fpc = "returned"
    /\ Len(hist) >= 2
    /\ Valid200(hist[Len(hist)])
    /\ fret > 100
    /\ mapRes = "null"

\* C11 second witness: got's timeout failed the first attempt only.
C11_AttemptTimeoutRetried ==
    /\ Len(hist) = 2
    /\ hist[1] = GotTimeout
    /\ Valid200(hist[2])
    /\ mapRes = "record"

\* A response whose content-type header is missing or names neither html
\* nor text.
NonTextType(r) ==
    r.kind = "http" /\ r.ctype \in {"application/pdf", "application/json", ""}

\* The fetch ended at response j without a retry and without extraction.
SkippedAt(j) ==
    /\ j = Len(hist)
    /\ fpc = "returned"
    /\ fret = 0
    /\ gets = j
    /\ Len(delays) = j - 1
    /\ extracts = 0

\* C12 as stated: every response that carries a content type with neither
\* "html" nor "text" ends the fetch at once as skipped: no retry follows it
\* and the body is not extracted.
C12_Original ==
    \A j \in 1..Len(hist) : NonTextType(hist[j]) => SkippedAt(j)

\* C12 amended: a response with a success status (2xx or 304) and a content
\* type with neither "html" nor "text" ends the fetch at that attempt with
\* the empty result: no further GET, no backoff, and extractTextFromHTML is
\* never called; a non-success response is handled by its status whatever
\* its content type, so a 503 with such a content type is retried.
C12_ContentTypeGate ==
    \A j \in 1..Len(hist) :
        ( /\ NonTextType(hist[j])
          /\ (hist[j].status >= 200 /\ hist[j].status <= 299) \/ hist[j].status = 304 )
        => SkippedAt(j)

\* C12 witness: application/pdf on the first response, one GET in all.
C12_Witness ==
    /\ Len(hist) = 1
    /\ hist[1].kind = "http" /\ hist[1].status = 200
    /\ hist[1].ctype = "application/pdf"
    /\ SkippedAt(1)
    /\ mapRes = "null"

\* C13 as stated: a fetched page contributes a record exactly when its
\* extracted text has at least 100 characters.
C13_Original ==
    (fpc = "returned" /\ race = "content") =>
        (mapRes = "record" <=> fret >= 100)

\* C13 amended: a fetched page contributes a record exactly when its
\* extracted text has more than 100 characters: a text of 100 characters or
\* fewer (the empty result of a failed or skipped fetch included) gives null.
C13_MinimumLength ==
    (fpc = "returned" /\ race = "content") =>
        /\ mapRes = "record" <=> fret >= 101
        /\ mapRes = "null" <=> fret <= 100

\* C13 witness: a valid page whose text has exactly 100 characters, dropped.
C13_Witness ==
    /\ fpc = "returned"
    /\ race = "content"
    /\ hist[Len(hist)].kind = "http" /\ hist[Len(hist)].status = 200
    /\ extracts = 1
    /\ fret = 100
    /\ mapRes = "null"

\* C13 second witness: 101 characters are enough.
C13_JustAbove ==
    fpc = "returned" /\ race = "content" /\ fret = 101 /\ mapRes = "record"

\* C19 as stated: one log record per attempt, so when the fetch has
\* returned the number of records equals the number of GETs.
C19_Original ==
    fpc = "returned" => logs = gets

\* C19 amended: every completed attempt writes one record ("URL fetch
\* attempt" for a response, "Error during content fetch" for a rejected
\* GET), and the attempt that ends the fetch with a response writes a second
\* one (failure, skip or success): the records number the completed attempts
\* plus one when the fetch ended with a response.
C19_LogRecords ==
    /\ logs = Len(hist)
              + (IF fpc = "returned" /\ hist[Len(hist)].kind = "http" THEN 1 ELSE 0)
    /\ fpc = "returned" => (gets = Len(hist) /\ logs \in {gets, gets + 1})

\* C19 witness: two retried attempts and a successful third one, four records.
C19_Witness ==
    /\ fpc = "returned"
    /\ gets = 3
    /\ Valid200(hist[3])
    /\ logs = 4

\* C19 second witness: a fetch ended by a transport error, one record per GET.
C19_ErrorPath ==
    /\ fpc = "returned"
    /\ gets = 2
    /\ hist[2].kind = "error"
    /\ logs = 2

\* C23: a response with a success status whose body lacks a "<" or a ">"
\* ends the fetch at that attempt with the empty result: no retry and no
\* backoff follow, and extractTextFromHTML is not called.
C23_MarkupGate ==
    \A j \in 1..Len(hist) :
        ( /\ hist[j].kind = "http"
          /\ hist[j].status >= 200 /\ hist[j].status <= 299
          /\ ~hist[j].markup )
        => /\ SkippedAt(j)
           /\ race = "content" => mapRes = "null"

\* C23 witness: a text/plain page without markup, met on a retry after a
\* 503; two GETs in all, nothing extracted.
C23_Witness ==
    /\ Len(hist) = 2
    /\ hist[1].kind = "http" /\ hist[1].status = 503
    /\ hist[2].kind = "http" /\ hist[2].status = 200
    /\ hist[2].ctype = "text/plain" /\ ~hist[2].markup
    /\ SkippedAt(2)
    /\ mapRes = "null"

---------------------------------------------------------------------------
(* Claims about fetchDataFromGoogle (checked under SpecQuery) *)

\* The callback value of the kept candidate at position j of items.
ValueOf(j) == LET p == CHOOSE p \in 1..Len(settled) : settled[p].item = j
              IN settled[p]

\* The successful candidates in the order the search returned them.
Successes ==
    IF Len(settled) < Len(Kept(items)) THEN <<>>
    ELSE SelectSeq([p \in 1..Len(Kept(items)) |-> ValueOf(Kept(items)[p])],
                   LAMBDA r : r.len > 0)

RecordLen(r) == StrLen(RecordOf(1, r))

RECURSIVE CumLen(_, _)
CumLen(sq, m) == IF m = 0 THEN 0 ELSE CumLen(sq, m - 1) + RecordLen(sq[m])

RECURSIVE ConcatRecords(_, _)
ConcatRecords(sq, m) ==
    IF m = 0 THEN <<>>
    ELSE ConcatRecords(sq, m - 1) \o RecordOf(1, sq[m])

\* Length of the longest prefix of the successes that fits the budget (the
\* empty prefix when not even the first record fits).
LongestFit ==
    LET ok == { m \in 1..Len(Successes) : CumLen(Successes, m) <= maxChars }
    IN IF ok = {} THEN 0 ELSE CHOOSE m \in ok : \A o \in ok : o <= m

\* C5: the records of a query's section appear in the order the search
\* returned the candidates, whatever order the fetches completed in.
C5_CandidateOrder ==
    /\ \A a, b \in 1..Len(context) : a < b => context[a].i < context[b].i
    /\ \A a \in 1..Len(context) :
          \E p \in 1..Len(settled) :
              /\ settled[p].len > 0
              /\ context[a] = RecordOf(1, settled[p])[1]

\* C5 witness: two records in the returned section whose fetches completed
\* in the reverse of the candidate order.
C5_Witness ==
    /\ spc = "done"
    /\ Len(context) >= 2
    /\ \E a, b \in 1..Len(settled) :
          /\ a < b
          /\ settled[a].item = context[2].i
          /\ settled[b].item = context[1].i

\* C6: the returned section is the concatenation of the longest prefix, in
\* candidate order, of the successful records that fits charBudget: the
\* first overflowing record is absent as a whole and none after it is added.
C6_StopAtFirstOverflow ==
    spc = "done" => context = ConcatRecords(Successes, LongestFit)

\* C6 witness: three successes; the second overflows, and the third, which
\* would fit in what is left of the budget, is not in the section.
C6_Witness ==
    /\ spc = "done"
    /\ Len(Successes) = 3
    /\ LongestFit = 1
    /\ CumLen(Successes, 1) + RecordLen(Successes[3]) <= maxChars
    /\ Len(context) = 1

\* C7 as stated: once the walk has begun, and when the section is returned,
\* the accumulated text is never longer than charBudget.
C7_Original == spc \in {"fold", "done"} => StrLen(context) <= maxChars

\* C7 amended: for maxTotalChars >= 0 (so charBudget >= 0) the accumulated
\* text is never longer than charBudget, at every step of the walk and at
\* its end.
C7_WithinBudget == maxChars >= 0 => StrLen(context) <= maxChars

\* C7 witness: the walk met an overflow after appending a record.
C7_Witness ==
    /\ spc = "fold"
    /\ stopped
    /\ maxChars >= 0
    /\ Len(context) >= 1

\* The candidates whose fetch succeeded in this run.
SucceededUrls == { results[j].item : j \in { k \in 1..Len(results) : results[k].len > 0 } }

\* The section of the run that differs from this one only in that the fetch
\* of candidate u fails: its callback value is null, all others are the same.
SectionIfFailed(u) ==
    LET res == [j \in 1..Len(results) |->
                   IF results[j].item = u THEN [results[j] EXCEPT !.len = 0]
                   ELSE results[j]]
    IN Walk(1, NonNull(res), 1, <<>>, maxChars)

\* This run's section with the record of candidate u taken out.
SectionWithout(u) == SelectSeq(context, LAMBDA pc : pc.i # u)

IsPrefix(a, b) == Len(a) <= Len(b) /\ SubSeq(b, 1, Len(a)) = a

\* C15 as stated: with the fetch of one candidate failing instead of
\* succeeding, the section is the other run's section with that candidate's
\* record removed: no other record disappears and none is added.
C15_Original ==
    spc = "done" =>
        \A u \in SucceededUrls : SectionIfFailed(u) = SectionWithout(u)

\* C15 amended: with the fetch of one candidate failing instead of
\* succeeding, no other record disappears and the order is kept: the other
\* run's section without that candidate's record is a prefix of the new
\* section, and the two are equal when the walk of the run in which it
\* succeeds met no overflow.  After an overflow the room the record leaves
\* can let records in that the overflow had cut off.
C15_FailureFrame ==
    spc = "done" =>
        /\ context = Walk(1, NonNull(results), 1, <<>>, maxChars)
        /\ \A u \in SucceededUrls :
              /\ IsPrefix(SectionWithout(u), SectionIfFailed(u))
              /\ ~stopped => SectionIfFailed(u) = SectionWithout(u)

\* C15 witness: a run with two records in its section and a third success
\* cut off by the overflow; had the second candidate failed, the third
\* would be in the section.
C15_Witness ==
    /\ spc = "done"
    /\ stopped
    /\ Len(context) = 2
    /\ \E u \in SucceededUrls :
          /\ u = context[2].i
          /\ Len(SectionIfFailed(u)) = 2
          /\ SectionIfFailed(u) # SectionWithout(u)

\* C15 second witness: no overflow, three records, any one of them removed.
C15_NoOverflow ==
    /\ spc = "done"
    /\ ~stopped
    /\ Len(context) = 3
    /\ \A u \in SucceededUrls : Len(SectionIfFailed(u)) = 2

\* The same callback values in every order of completion.
Reorderings(sq) ==
    { [j \in 1..Len(sq) |-> sq[f[j]]] :
        f \in { g \in [1..Len(sq) -> 1..Len(sq)] :
                  \A a, b \in 1..Len(sq) : a # b => g[a] # g[b] } }

\* The section of the run in which the callbacks settle in the order `done`.
SectionOf(done) ==
    Walk(1, NonNull(PromiseAll(Kept(items), done)), 1, <<>>, maxChars)

---------------------------------------------------------------------------
(* Claims about the items of a search response (checked under SpecItems) *)

\* The positions of the items whose link was handed to fetchContentFromUrl.
Handed == { Kept(items)[p] : p \in 1..Len(Kept(items)) }

\* The link of item j matches one of the two exclusion patterns.
MatchesExclusion(j) ==
    \/ items[j].link.ext = "pdf"
    \/ items[j].link.path \in {"login", "download"}

\* C21 as stated: a candidate is excluded when an exclusion pattern matches
\* and allowed when none does, and no malformed URL is handed to the
\* fetcher.
C21_Original ==
    /\ \A j \in 1..Len(items) :
          items[j].link.form = "url" => (j \in Handed <=> ~MatchesExclusion(j))
    /\ \A j \in Handed : items[j].link.form = "url"

\* C21 amended: a candidate is excluded exactly when its link matches the
\* extension pattern or the path pattern; the filter does not parse the
\* link, so a malformed or missing link that matches neither is handed to
\* the fetcher, whose GET is rejected: its callback gives null and no record
\* of it reaches the section.
C21_FilterByPattern ==
    /\ \A j \in 1..Len(items) : j \in Handed <=> ~MatchesExclusion(j)
    /\ \A p \in 1..Len(settled) :
          /\ settled[p].item \in Handed
          /\ items[settled[p].item].link.form # "url" => settled[p].len = 0
    /\ \A a \in 1..Len(context) : items[context[a].i].link.form = "url"

\* C21 witness: a response with a malformed link and a .pdf link; the first
\* was handed to the fetcher and failed, the second was filtered out.
C21_Witness ==
    /\ spc = "done"
    /\ Len(items) = 2
    /\ items[1].link.form = "malformed"
    /\ items[2].link.ext = "pdf"
    /\ Handed = {1}
    /\ Len(settled) = 1 /\ settled[1].item = 1 /\ settled[1].len = 0

\* C26: items without a title or without a link are dropped before the
\* section is assembled: no record in the section was built from an item
\* whose title or link is undefined.
C26_NoUndefinedField ==
    \A a \in 1..Len(context) :
        /\ items[context[a].i].title
        /\ items[context[a].i].link.form # "undefined"

---------------------------------------------------------------------------
(* Claims about app.post("/query") (checked under Spec and SpecLive) *)

Validated == ~QueriesInvalid(req) /\ ~CredentialsMissing(req)

\* The concatenation of the wrapped sections of all queries, not truncated.
Untruncated == Blocks(qctx, NumQueries(req))

\* C1 as stated: for every validated request, maxTotalChars being any number,
\* the contextData of the response is at most maxTotalChars long.
C1_Original ==
    (hpc = "responded" /\ Validated) => StrLen(respBody) <= MaxTotalChars(req)

\* C1 amended: for every validated request with maxTotalChars >= 0 (given or
\* defaulted) the contextData of the response is at most maxTotalChars long,
\* in every outcome.
C1_LengthBound ==
    (hpc = "responded" /\ Validated /\ MaxTotalChars(req) >= 0)
        => StrLen(respBody) <= MaxTotalChars(req)

\* C1 witness: all queries completed, the concatenation is longer than
\* maxTotalChars and the response holds exactly maxTotalChars characters.
C1_Witness ==
    /\ hpc = "responded"
    /\ ~timedOut
    /\ Validated
    /\ MaxTotalChars(req) > 0
    /\ StrLen(Untruncated) > MaxTotalChars(req)
    /\ StrLen(respBody) = MaxTotalChars(req)

\* C2: when the global timeout produced the response (and the result fits
\* maxTotalChars), every record of every query that had completed by then is
\* in the returned contextData.
C2_PartialOnTimeout ==
    ( /\ hpc = "responded"
      /\ timedOut
      /\ StrLen(Untruncated) <= MaxTotalChars(req) )
    => \A q \in respDone : \A p \in 1..Len(qctx[q]) :
          \E a \in 1..Len(respBody) : respBody[a] = qctx[q][p]

\* C3: a validated request is always answered, and the answer is sent no
\* later than the global timeout (60 s) after the aggregation started.
C3_RespondsInTime ==
    /\ [](hpc = "responded" => respAt <= 60000)
    /\ (hpc = "racing") ~> (hpc = "responded")

\* C3 witness: a response sent by the timer while a search call was still
\* unanswered.
C3_Witness ==
    /\ hpc = "responded"
    /\ timedOut
    /\ respAt = GlobalTimeoutMs
    /\ \E q \in DOMAIN qst : qst[q] = "search"

\* C4: a validated request is answered with HTTP success and a contextData
\* string, whatever failed on the way.
C4_NeverFails ==
    (hpc = "responded" /\ Validated) => respStatus = 200

\* C4 witness: a response after the global timeout fired, with one query's
\* search call failed and another query still in flight.
C4_Witness ==
    /\ hpc = "responded"
    /\ Validated
    /\ timedOut
    /\ \E q \in DOMAIN qst : qfail[q]
    /\ \E q \in DOMAIN qst : qst[q] # "done"
    /\ respStatus = 200

\* The budget every query of the request is given.
Budget == CharsPerQuery(MaxTotalChars(req), NumQueries(req))

\* The sections query p can resolve with, given its number of candidates.
PossibleSections(p) ==
    { Walk(p, NonNull(v), 1, <<>>, Budget) : v \in HitValues(qhits[p]) }

\* C14: a search call that fails (rejects, answers non-2xx, or has no items
\* array) gives its own query the empty section and touches nothing else:
\* the state and section of every other query are left as they are, the
\* sections the others can resolve with do not depend on it, the request is
\* not aborted while another query is in flight, and the response still has
\* one block per query.
C14_QueryFailureIsolated ==
    /\ [](\A q \in DOMAIN qfail : qfail[q] => (qst[q] = "done" /\ qctx[q] = <<>>))
    /\ []((hpc = "responded" /\ respStatus = 200 /\ ~timedOut) =>
            /\ \A q \in DOMAIN qst : q \in respDone
            /\ respBody = Slice(Blocks(qctx, NumQueries(req)), MaxTotalChars(req)))
    /\ [][\A q \in DOMAIN qfail :
            (~qfail[q] /\ qfail'[q]) =>
                /\ \A p \in DOMAIN qfail \ {q} :
                      /\ qst'[p] = qst[p]
                      /\ qctx'[p] = qctx[p]
                      /\ qhits'[p] = qhits[p]
                      /\ qfail'[p] = qfail[p]
                /\ (hpc = "racing" /\ \E p \in DOMAIN qst \ {q} : qst[p] # "done")
                      => (hpc' = "racing" /\ nresp' = nresp)]_vars
    /\ [][\A p \in DOMAIN qst :
            (qst[p] = "fetch" /\ qst'[p] = "done") =>
                qctx'[p] \in PossibleSections(p)]_vars

\* C14 witness: the search of the first query failed, then the second query
\* resolved with a record, and the response has the first query's empty
\* block followed by the second query's record.
C14_Witness ==
    /\ hpc = "responded"
    /\ respStatus = 200
    /\ ~timedOut
    /\ NumQueries(req) = 2
    /\ qfail[1] /\ ~qfail[2]
    /\ ~outOfOrder
    /\ Len(qctx[2]) = 1
    /\ respBody = Block(1, <<>>) \o Block(2, qctx[2])

\* Header, section and separator of the queries k..n, in input order.
RECURSIVE InInputOrder(_, _)
InInputOrder(k, n) ==
    IF k > n THEN <<>>
    ELSE <<[k |-> "hdr", q |-> k, i |-> 0,
            full |-> 6 + QueryLen, n |-> 6 + QueryLen]>>
         \o qctx[k]
         \o <<[k |-> "sep", q |-> k, i |-> 0, full |-> 83, n |-> 83]>>
         \o InInputOrder(k + 1, n)

\* a holds the first StrLen(a) characters of b.
CharPrefix(a, b) ==
    /\ Len(a) <= Len(b)
    /\ \A j \in 1..Len(a) :
          /\ a[j] = [b[j] EXCEPT !.n = a[j].n]
          /\ a[j].n >= 1 /\ a[j].n <= b[j].n
          /\ j < Len(a) => a[j].n = b[j].n

\* Number of characters slice(0, m) keeps of a string of len characters.
KeptBySlice(len, m) ==
    IF m >= len THEN len
    ELSE IF m >= 0 THEN m
    ELSE IF len + m > 0 THEN len + m ELSE 0

Rejectable ==
    \/ req.queries.kind \in {"missing", "notarray"}
    \/ req.queries.kind = "array" /\ req.queries.len = 0
    \/ ~req.googleApiKey
    \/ ~req.googleSearchEngineId

\* C18: a request whose queries are missing, not an array or empty, or that
\* lacks the API key or the engine id, is answered 400 and performs no I/O
\* at any time: no search call is issued and no page is fetched.
C18_RejectedBeforeIO ==
    Rejectable =>
        /\ hpc \in {"recv", "responded"}
        /\ ioCalls = 0
        /\ qst = <<>>
        /\ ~timerFired
        /\ hpc = "responded" => (respStatus = 400 /\ nresp = 1)

\* C18 witness: valid queries but no engine id, rejected without any call.
C18_Witness ==
    /\ hpc = "responded"
    /\ respStatus = 400
    /\ req.queries.kind = "array" /\ req.queries.len = 2
    /\ req.googleApiKey /\ ~req.googleSearchEngineId
    /\ ioCalls = 0

\* C18 second witness: an accepted request does start its search calls.
C18_AcceptedStartsCalls ==
    /\ hpc = "racing"
    /\ ~Rejectable
    /\ ioCalls = req.queries.len

\* C20: the response is sent exactly once; after the global timeout has
\* produced it, a query that completes later changes neither the returned
\* contextData nor the status, and no second response is sent.
C20_RespondsOnce ==
    /\ [](nresp <= 1)
    /\ [](hpc = "responded" <=> nresp = 1)
    /\ [][hpc = "responded" =>
            /\ hpc' = "responded"
            /\ respBody' = respBody
            /\ respStatus' = respStatus
            /\ respAt' = respAt
            /\ nresp' = nresp]_vars

\* C20 witness: the timer produced the response while queries were in
\* flight; all of them have completed since, one with a record, and there is
\* still one response, with the contextData it was sent with.
C20_Witness ==
    /\ hpc = "responded"
    /\ timedOut
    /\ respDone # DOMAIN qst
    /\ \A q \in DOMAIN qst : qst[q] = "done"
    /\ \E q \in DOMAIN qst \ respDone : qctx[q] # <<>>
    /\ respBody = <<>>
    /\ nresp = 1

\* maxTotalChars as the handler reads it from the body.
GivenOrDefault == IF req.maxTotalChars.given THEN req.maxTotalChars.val ELSE 200000

\* C22: every query of a request is called with the same charBudget,
\* floor(maxTotalChars / number of queries), fixed when the request is
\* accepted, and number of queries * charBudget <= maxTotalChars.
C22_CharBudget ==
    /\ [](hpc \in {"racing", "responded"} /\ respStatus # 400 =>
            /\ DOMAIN qbudget = 1..req.queries.len
            /\ \A q \in DOMAIN qbudget :
                  /\ req.queries.len * qbudget[q] <= GivenOrDefault
                  /\ GivenOrDefault < req.queries.len * (qbudget[q] + 1)
                  /\ qbudget[q] = qbudget[1])
    /\ [][hpc # "recv" => qbudget' = qbudget]_vars

\* C22 witness: 1001 characters for two queries, 500 each, and a query that
\* resolved under that budget.
C22_Witness ==
    /\ hpc = "responded"
    /\ req.queries.len = 2
    /\ GivenOrDefault = 1001
    /\ qbudget = <<500, 500>>
    /\ Len(qctx[2]) = 2

\* contextData as it is before the final slice: the blocks of all queries,
\* or the empty string when the global timeout rejected the race.
BeforeSlice == IF timedOut THEN <<>> ELSE InInputOrder(1, req.queries.len)

C27_CutInSeparator ==
    /\ hpc = "responded"
    /\ ~timedOut
    /\ Len(respBody) >= 1
    /\ respBody[Len(respBody)].k = "sep"
    /\ respBody[Len(respBody)].n < respBody[Len(respBody)].full

\* Total length of the sections of the queries 1..k, headers and separators
\* not counted.
RECURSIVE SectionChars(_)
SectionChars(k) == IF k = 0 THEN 0 ELSE SectionChars(k - 1) + StrLen(qctx[k])

\* C28: for maxTotalChars >= 0 the sections of all queries together are at
\* most maxTotalChars long, at every moment and so in every response not
\* produced by the global timeout; headers and separators are outside the
\* budget (the untruncated text is longer than the sections by 6 + the query
\* length + 83 characters per query).
C28_SectionsWithinTotal ==
    (hpc \in {"racing", "responded"} /\ respStatus # 400 /\ GivenOrDefault >= 0) =>
        /\ SectionChars(req.queries.len) <= GivenOrDefault
        /\ \A q \in DOMAIN qctx : StrLen(qctx[q]) <= qbudget[q]
        /\ StrLen(InInputOrder(1, req.queries.len))
              = SectionChars(req.queries.len) + req.queries.len * (6 + QueryLen + 83)

\* C28 witness: two queries, each with a record that fitted its budget of
\* 150, 292 characters of sections for maxTotalChars = 300; the blocks are
\* 472 characters long and the second record is cut by the final slice.
C28_Witness ==
    /\ hpc = "responded"
    /\ respStatus = 200
    /\ ~timedOut
    /\ GivenOrDefault = 300
    /\ req.queries.len = 2
    /\ Len(qctx[1]) = 1 /\ Len(qctx[2]) = 1
    /\ SectionChars(2) <= 300
    /\ \A a \in 1..Len(respBody) : respBody[a] # qctx[2][1]
    /\ StrLen(respBody) = 300

\* What belongs to query p in the handler's state.
Own(p) == <<qst[p], qhits[p], qctx[p], qfail[p], qbudget[p]>>

\* The sections query p can return, from its own candidates and its own
\* share of maxTotalChars alone.
OwnSections(p) ==
    { Walk(p, NonNull(v), 1, <<>>, GivenOrDefault \div req.queries.len) :
        v \in HitValues(qhits[p]) }

\* C29: queries do not interfere.  A step of one query changes nothing that
\* belongs to another; the section a query resolves with is one of those its
\* own candidates can give under its own share of the budget, whatever the
\* other queries did and however little of their shares they used; once
\* resolved, a section is never changed.
C29_NoInterference ==
    /\ [][\A p \in DOMAIN qst :
            (DOMAIN qst' = DOMAIN qst /\ Own(p)' # Own(p)) =>
                \A r \in DOMAIN qst \ {p} : Own(r)' = Own(r)]_vars
    /\ [][\A p \in DOMAIN qst :
            /\ (qst[p] = "fetch" /\ qst'[p] = "done") => qctx'[p] \in OwnSections(p)
            /\ (qst[p] = "search" /\ qst'[p] = "done") => qctx'[p] = <<>>
            /\ qst[p] = "done" => (qst'[p] = "done" /\ qctx'[p] = qctx[p])]_vars

\* C29 witness: 300 characters for two queries; the first query's search
\* failed and used nothing of its 150, the second had two candidates and
\* returned one record, the most its own 150 allow, although two records
\* (292 characters) would fit the 300 as a whole.
C29_Witness ==
    /\ hpc = "responded"
    /\ respStatus = 200
    /\ ~timedOut
    /\ GivenOrDefault = 300
    /\ req.queries.len = 2
    /\ qfail[1] /\ qctx[1] = <<>>
    /\ qhits[2] = 2
    /\ Len(qctx[2]) = 1
    /\ \A s \in OwnSections(2) : Len(s) <= 1
    /\ \E v \in HitValues(2) : Len(Walk(2, NonNull(v), 1, <<>>, 300)) = 2


(* The metrics of a query (checked under SpecItems) *)

CountOf(P(_)) == Cardinality({ k \in 1..Len(settled) : P(settled[k]) })
Succeeded(r) == r.len > 0
Failed(r) == r.len = 0

\* C30: in every interleaving each item of the search response is counted
\* exactly once: a filtered item as failed when the filter drops it, a
\* candidate as successful or failed when its callback settles, and never
\* again when a fetch whose timer won returns later; so once every
\* candidate has settled successfulUrls + failedUrls is the number of
\* items the search returned.
C30_MetricsConsistent ==
    /\ successfulUrls = CountOf(Succeeded)
    /\ spc \in {"fetch", "fold", "done"} =>
          failedUrls = (Len(items) - Len(Kept(items))) + CountOf(Failed)
    /\ (spc \in {"fold", "done"} /\ Len(settled) = Len(Kept(items))) =>
          successfulUrls + failedUrls = Len(items)

C30_Witness ==
    /\ spc \in {"fold", "done"}
    /\ Len(items) = MaxAnyItems
    /\ Len(settled) = Len(Kept(items))
    /\ lateReturns >= 1
    /\ successfulUrls >= 1
    /\ successfulUrls + failedUrls = Len(items)


---------------------------------------------------------------------------
(* Claims about extractTextFromHTML (checked under SpecText and SpecLinks) *)

\* The words of a text: its maximal runs of characters other than whitespace,
\* in reading order.
WordStarts(s) ==
    { k \in 1..Len(s) : s[k] \notin Whitespace /\ (k = 1 \/ s[k - 1] \in Whitespace) }
WordAt(s, k) ==
    SubSeq(s, k, CHOOSE e \in k..Len(s) :
                    /\ \A i \in k..e : s[i] \notin Whitespace
                    /\ (e = Len(s) \/ s[e + 1] \in Whitespace))
Words(s) ==
    [n \in 1..Cardinality(WordStarts(s)) |->
        WordAt(s, CHOOSE k \in WordStarts(s) :
                     Cardinality({ j \in WordStarts(s) : j < k }) = n - 1)]

SameLetter(c, d) == c = d \/ {c, d} = {"a", "A"}
EqualIgnoringCase(v, w) ==
    Len(v) = Len(w) /\ \A k \in 1..Len(v) : SameLetter(v[k], w[k])
IsStopword(w) == \E sw \in englishStopwords : EqualIgnoringCase(w, sw)

\* C24: the text extractTextFromHTML returns has no whitespace at either
\* end, holds no newline, no tab and no two adjacent spaces, holds no word
\* that equals a stopword when case is ignored, holds the other words of the
\* markdown in their order, and is left as it is by the cleaning.
C24_NormalForm ==
    epc = "text" =>
        /\ cleaned # <<>> =>
              cleaned[1] \notin Whitespace /\ cleaned[Len(cleaned)] \notin Whitespace
        /\ \A k \in 1..Len(cleaned) : cleaned[k] \notin {"\n", "\t"}
        /\ \A k \in 1..(Len(cleaned) - 1) : ~(cleaned[k] = " " /\ cleaned[k + 1] = " ")
        /\ \A n \in 1..Len(Words(cleaned)) : ~IsStopword(Words(cleaned)[n])
        /\ Words(cleaned) = SelectSeq(Words(markdown), LAMBDA w : ~IsStopword(w))
        /\ Clean(cleaned) = cleaned

C24_Witness ==
    /\ epc = "text"
    /\ Len(markdown) = MaxMarkdownLen
    /\ markdown[1] \in Whitespace
    /\ \E k \in 1..Len(markdown) : markdown[k] = "\t"
    /\ \E n \in 1..Len(Words(markdown)) : Words(markdown)[n] = <<"A">>
    /\ Len(Words(cleaned)) = 1
    /\ markdown # cleaned


\* What the callback of hrefs.filter accepts, stated on the URL itself.
Returnable(h, origin) ==
    /\ h.form = "absolute"
    /\ h.origin = origin
    /\ h.ext \notin excludedExtensions

\* C25: every link extractTextFromHTML returns is an absolute URL of the
\* page's origin whose path does not end in an extension of
\* excludedExtensions; the call returns when an href does not parse, and
\* the links are exactly the hrefs of that kind, in their order.
C25_SameOriginLinks ==
    epc = "links" =>
        /\ \A k \in 1..Len(urls) : Returnable(urls[k], pageUrl)
        /\ \A k \in 1..Len(urls) : urls[k] # InvalidHref
        /\ urls = SelectSeq(hrefs, LAMBDA h : Returnable(h, pageUrl))

C25_Witness ==
    /\ epc = "links"
    /\ Len(anchors) = MaxHrefs
    /\ \E k \in 1..Len(hrefs) : hrefs[k] = InvalidHref
    /\ \E k \in 1..Len(anchors) : anchors[k].form = "relative"
    /\ Len(urls) = 1


---------------------------------------------------------------------------
(* Termination of fetchContentFromUrl (checked under SpecFetchLive) *)

\* The response that ended the loop is one of the error paths.
ErrorPath(r) ==
    \/ r.kind = "error"
    \/ ~ResponseOk(r.status)
    \/ ~ContentTypeOk(r.ctype)
    \/ ~r.markup

\* C31: fetchContentFromUrl issues at most maxRetries + 1 GETs and waits at
\* most maxRetries backoff delays, what it returns is a string (fret is the
\* length of one, never the mark of a call that has not returned), the
\* empty string on every error path, and when every GET returns or fails
\* the call does return.
C31_TerminatesWithString ==
    /\ [](gets <= maxRetries + 1 /\ Len(delays) <= maxRetries)
    /\ [](fpc = "returned" =>
             /\ fret >= 0
             /\ ErrorPath(hist[Len(hist)]) => fret = 0)
    /\ <>(fpc = "returned")

C31_Witness ==
    /\ fpc = "returned"
    /\ gets = maxRetries + 1
    /\ Len(delays) = maxRetries
    /\ hist[Len(hist)].kind = "error"
    /\ fret = 0


\* C32: the 20 s timer armed with a URL's fetch bounds the whole retry
\* sequence: the race is never pending after the timer's time, a fetch that
\* settles it does so no later than that time, a URL whose attempts and
\* backoff delays have produced nothing when the timer expires gives its
\* query nothing, and the race does settle, so the assembly, which waits
\* for the races only, is not held up beyond the timer.
C32_TimerBoundsSequence ==
    /\ [](race = "pending" => now <= UrlTimeoutMs)
    /\ [](race = "content" => fpc = "returned" /\ now <= UrlTimeoutMs)
    /\ [](race = "timeout" => mapRes = "null")
    /\ <>[](race \in {"content", "timeout"})

C32_Witness ==
    /\ race = "timeout"
    /\ fpc = "backoff"
    /\ gets = 2
    /\ Len(delays) = 2
    /\ due > UrlTimeoutMs
    /\ mapRes = "null"


---------------------------------------------------------------------------
(* The candidates the filter rejects (checked under SpecItems) *)

Rejected == { j \in 1..Len(items) : MatchesExclusion(j) }

\* The reason of the first rule that matches the link of item j.
FirstRuleReason(j) ==
    IF items[j].link.ext = "pdf" THEN "Excluded file extension"
    ELSE "Suspected non-content URL"

\* C33: no fetch is started for a candidate whose link matches the
\* extension pattern or the path pattern; each such candidate is counted as
\* failed once, by the filter, and the reason recorded for its link is that
\* of the first pattern that matched, to the end of the query.
C33_RejectedNeverFetched ==
    spc \in {"fetch", "fold", "done"} =>
        /\ \A p \in 1..Len(settled) : settled[p].item \notin Rejected
        /\ failedUrls - CountOf(Failed) = Cardinality(Rejected)
        /\ \A j \in Rejected :
              /\ items[j].link \in DOMAIN failureReasons
              /\ failureReasons[items[j].link] = FirstRuleReason(j)

C33_Witness ==
    /\ spc = "done"
    /\ Len(items) = MaxAnyItems
    /\ items[1].link = DownloadLink
    /\ Len(settled) = Len(items) - 1
    /\ failedUrls = 1
    /\ failureReasons[DownloadLink] = "Excluded file extension"


---------------------------------------------------------------------------
(* Claims about the sequential variant (checked under SpecSequential) *)

\* C34 as stated: the section is never longer than maxChars, is exactly
\* maxChars long after an overflow with maxChars >= 0, and holds nothing
\* of a record after the overflowing one.
C34_Original ==
    /\ StrLen(context) <= maxChars
    /\ (stopped /\ maxChars >= 0) => StrLen(context) = maxChars
    /\ stopped => \A a \in 1..Len(context) : context[a].i <= results[idx].item

\* C34 amended: for maxChars >= 0 the section is never longer than maxChars
\* and is exactly maxChars long once a record has overflowed; for a negative
\* maxChars the section is empty; in both cases the section is the records
\* before the overflowing one, whole and in order, followed by at most a
\* leading part of the overflowing record and by nothing after it.
C34_PartialRecordWithinBudget ==
    /\ maxChars >= 0 => StrLen(context) <= maxChars
    /\ maxChars < 0 => context = <<>>
    /\ (stopped /\ maxChars >= 0) => StrLen(context) = maxChars
    /\ \A a \in 1..Len(context) :
          /\ context[a].i = results[a].item
          /\ context[a].n < context[a].full => (stopped /\ a = idx)
    /\ stopped => Len(context) <= idx
    /\ ~stopped => Len(context) = idx - 1

C34_Witness ==
    /\ spc = "done"
    /\ stopped
    /\ Len(results) = MaxItems
    /\ Len(context) = 2
    /\ context[2].n < context[2].full
    /\ StrLen(context) = maxChars


---------------------------------------------------------------------------
(* Claims about app.post("/") (checked under SpecRootLive) *)

\* The response the handler owes request i, by what the request met.
OwedStatus(i) ==
    IF rurl[i] \in {"missing", "empty"} THEN 400
    ELSE IF rgot[i].kind = "error"
         THEN (IF rgot[i].name = "TimeoutError" THEN 504 ELSE 500)
    ELSE IF rgot[i].status = 404 THEN 404
    ELSE IF ~ResponseOk(rgot[i].status) THEN rgot[i].status
    ELSE IF rthrew[i] THEN 500
    ELSE 200

\* C35: every request to "/" gets one response and no second one: 400 and
\* no GET when url is missing, 404 for a 404 page, the upstream status for
\* another status that is not ok, 504 when the GET fails with a
\* TimeoutError, 500 for any other error, and the extraction result, with
\* status 200, for a successful GET only.
C35_OneResponsePerPath ==
    /\ [](\A i \in RootRequests :
            /\ rsent[i] <= 1
            /\ rsent[i] = 1 <=> rpc[i] = "responded"
            /\ rgets[i] <= 1
            /\ rurl[i] \in {"missing", "empty"} => rgets[i] = 0
            /\ rpc[i] = "responded" =>
                  /\ rstatus[i] = OwedStatus(i)
                  /\ rbody[i] = "result" <=>
                        /\ rgot[i].kind = "http"
                        /\ ResponseOk(rgot[i].status)
                        /\ ~rthrew[i])
    /\ <>[](\A i \in RootRequests : rsent[i] = 1)

C35_Witness ==
    /\ \A i \in RootRequests : rpc[i] = "responded"
    /\ rstatus[1] = 504
    /\ rgot[1] = GotTimeout
    /\ rstatus[2] = 200
    /\ rbody[2] = "result"

===========================================================================
